---- MODULE Spec2Model ----
(***************************************************************************)
(* A model of the ELMo-biLM language-model scripts:                        *)
(*   - LSTMPCellWithClip.hybrid_forward      (one recurrent cell step)     *)
(*   - ElmoLSTM.forward / ElmoBiLM           (encoder and language model)  *)
(*   - the module-level configuration checks of the two scripts            *)
(*   - train() / evaluate()                  (the training loop)           *)
(* Each part has its own specification (SpecCell, SpecEncoder, SpecBuild,  *)
(* Spec); the variables of the other parts stay at their idle values.      *)
(*                                                                         *)
(* Numbers.  Tensor elements are fixed-point integers: the integer v      *)
(* stands for the real v / Scale.  Losses are extended reals, see Loss.    *)
(***************************************************************************)
EXTENDS Integers, Sequences, FiniteSets, TLC

----------------------------------------------------------------------------
(* Bounds of the model. *)

\* fixed-point denominator: an element v stands for v / Scale
Scale == 2
\* largest magnitude (in units of 1/Scale) of a drawn input or state element
MaxMag == 4
\* largest clip bound drawn (in units of 1/Scale)
MaxClip == 2
\* sizes of the cell under test
InputSize == 1
HiddenSize == 2
ProjSize == 1
\* number of consecutive steps one cell is driven for
MaxSteps == 2
\* largest number of encoder layers and longest chunk (time steps) drawn
MaxLayers == 2
MaxSeq == 2
\* largest --epochs, --lr_update_interval and --bptt drawn
MaxEpochs == 2
MaxInterval == 2
MaxBptt == 2
\* len(train_data), and len(val_data) = len(test_data)
TrainLen == 4
EvalLen == 4

----------------------------------------------------------------------------
(* Optional values: Python's None is the empty sequence, a set value v is  *)
(* the one-element sequence <<v>>.                                         *)

None == <<>>

Some(v) == <<v>>

IsNone(o) == o = <<>>

Get(o) == o[1]

VARIABLES
  \* ---- LSTMPCellWithClip
  F,                \* the API hybrid_forward runs with: "ndarray" or "symbol"
  cell_clip,        \* self._cell_clip: None or Some(bound)
  projection_clip,  \* self._projection_clip: None or Some(bound)
  cell_w,           \* the cell's parameters
  cell_in,          \* [inputs, states] of the pending / last call
  cell_out,         \* None before the call, else Some([next_r, next_c])
  counter,          \* self._counter: calls made so far
  \* ---- ElmoLSTM / ElmoBiLM (values)
  lm,               \* the constructed model: configuration, parameters, masks
  lm_inputs,        \* inputs = (inputs[0], inputs[1]): two token streams
  lm_state,         \* begin_state: None or (states_forward, states_backward)
  lm_out,           \* None before the call, else Some(result of forward)
  \* ---- the script from its first line to the first model call
  script,           \* "word_language_model" or "bi_language_model"
  args,             \* the parsed arguments: one field per option the parser has
  context,          \* len(context): the number of devices
  bpc,              \* where the script is
  error,            \* None, or Some(the exception that ended the script)
  model,            \* None, or Some(the ElmoBiLM constructed)
  created,          \* the sub-modules created so far, in order
  initialized,      \* model.initialize() was called
  first_out,        \* None, or Some(the result of the first model call)
  \* ---- __main__, train() and evaluate()
  tpc,              \* where the run is
  epoch,            \* train(): epoch
  train_i,          \* train(): i, the position in train_data
  batch_i,          \* train(): batch_i
  total_L,          \* train(): total_L, the sum of the batch losses
  hiddens,          \* train(): hiddens, one hidden state per device
  ev,               \* None, or Some(the running call of evaluate())
  handed,           \* the hidden states the last model call was given
  backprop,         \* the chunks the last L.backward() went through
  chunk,            \* the number of model calls made so far
  val_L,            \* train(): val_L
  test_L,           \* train(): test_L
  best_val,         \* train(): best_val
  update_lr_epoch,  \* train(): update_lr_epoch, None while unbound
  lr,               \* trainer.learning_rate, a fraction <<num, den>>
  saved,            \* args.save: None, or Some(the loss it was saved at)
  val_hist,         \* the validation losses of the epochs validated so far
  ppl,              \* None, or Some(the last perplexity computation)
  exception,        \* None, or Some(the exception that ended the run)
  \* ---- the last pass of a loop over chunks (train() or evaluate())
  cur_data,         \* data: the chunk get_batch returned
  cur_target,       \* target: the chunk get_batch returned
  cur_l,            \* l: None, or Some(what the last call of criterion did)
  ops,              \* the operations of the last training pass, in order
  params,           \* the parameters in memory: the number of updates made
  scored,           \* the logits of the last model call and what scores them
  \* ---- the checkpoint file and the parameters the passes ran on
  saved_params,     \* None, or Some(the parameters args.save holds)
  par_hist,         \* the parameters each validation pass in train() ran on
  used_params,      \* the parameters the last pass of evaluate() ran on
  train_chunks,     \* the data chunks of the training passes of this epoch
  summed            \* the number of batch losses added up in total_L

cellVars ==
  <<F, cell_clip, projection_clip, cell_w, cell_in, cell_out, counter>>

lmVars == <<lm, lm_inputs, lm_state, lm_out>>

buildVars ==
  <<script, args, context, bpc, error, model, created, initialized, first_out>>

trainVars ==
  <<tpc, epoch, train_i, batch_i, total_L, hiddens, ev, handed, backprop,
    chunk, val_L, test_L, best_val, update_lr_epoch, lr, saved, val_hist,
    ppl, exception>>

passVars ==
  <<cur_data, cur_target, cur_l, ops, params, scored, saved_params, par_hist,
    used_params, train_chunks, summed>>

vars == <<cellVars, lmVars, buildVars, trainVars, passVars>>

----------------------------------------------------------------------------
(* Element-wise arithmetic on fixed-point vectors.                          *)

\* a function on 1..n as a tuple, its elements evaluated once
Tuple(f) == SubSeq(f, 1, Len(f))

Abs(v) == IF v < 0 THEN 0 - v ELSE v

Min(a, b) == IF a < b THEN a ELSE b

Max(a, b) == IF a < b THEN b ELSE a

\* fixed-point product of two elements
Mul(a, b) == (a * b) \div Scale

VMul(u, v) == Tuple([k \in DOMAIN u |-> Mul(u[k], v[k])])

VAdd(u, v) == Tuple([k \in DOMAIN u |-> u[k] + v[k]])

RECURSIVE Dot(_, _, _)
Dot(w, x, n) == IF n = 0 THEN 0 ELSE Dot(w, x, n - 1) + Mul(w[n], x[n])

\* F.FullyConnected(data, weight, bias): one output per weight row
FullyConnected(data, weight, bias) ==
  Tuple([k \in DOMAIN weight |-> Dot(weight[k], data, Len(data)) + bias[k]])

\* F.FullyConnected(..., no_bias=True)
FullyConnectedNoBias(data, weight) ==
  Tuple([k \in DOMAIN weight |-> Dot(weight[k], data, Len(data))])

\* F.SliceChannel(gates, num_outputs=4)[n]: the n-th quarter (n = 0..3)
SliceChannel(gates, n) ==
  LET h == Len(gates) \div 4 IN Tuple([k \in 1..h |-> gates[n * h + k]])

\* F.Activation(act_type="sigmoid"), piecewise linear: range [0, 1],
\* monotone, sigmoid(0) = 1/2
Sigmoid(z) == Max(0, Min(Scale, (z + Scale) \div 2))

\* F.Activation(act_type="tanh"), piecewise linear: range [-1, 1],
\* monotone, odd
Tanh(z) == Max(0 - Scale, Min(Scale, z))

VSigmoid(v) == Tuple([k \in DOMAIN v |-> Sigmoid(v[k])])

VTanh(v) == Tuple([k \in DOMAIN v |-> Tanh(v[k])])

\* the clamp operator itself: element-wise clamp to [a_min, a_max]
Clamp(v, a_min, a_max) ==
  Tuple([k \in DOMAIN v |-> Max(a_min, Min(a_max, v[k]))])

\* F.clip(x, a_min, a_max, out=x) evaluated for its effect on x only: the
\* value returned by the call is dropped by the caller.  With the
\* imperative API the result is written into x in place; with the symbolic
\* API (a hybridized block) out= is not honoured, the clipped symbol is a
\* new node nobody refers to, and x is what it was.
clip_out(api, x, a_min, a_max) ==
  IF api = "ndarray" THEN Clamp(x, a_min, a_max) ELSE x

----------------------------------------------------------------------------
(* LSTMPCellWithClip *)

\* lines 74-85: the gates and the raw new cell state
\* [in_gate, forget_gate, in_transform, out_gate, next_c]
cell_gates(inputs, states, w) ==
  LET i2h   == FullyConnected(inputs, w.i2h_weight, w.i2h_bias)
      h2h   == FullyConnected(states[1], w.h2h_weight, w.h2h_bias)
      gates == VAdd(i2h, h2h)
      in_gate      == VSigmoid(SliceChannel(gates, 0))
      forget_gate  == VSigmoid(SliceChannel(gates, 1))
      in_transform == VTanh(SliceChannel(gates, 2))
      out_gate     == VSigmoid(SliceChannel(gates, 3))
  IN  [in_gate |-> in_gate, forget_gate |-> forget_gate,
       in_transform |-> in_transform, out_gate |-> out_gate,
       next_c |-> VAdd(VMul(forget_gate, states[2]),
                       VMul(in_gate, in_transform))]

\* (mutant) an unset bound taken for the bound 0
cell_clip_step_unset_is_zero(api, next_c, cclip) ==
  IF ~IsNone(cclip)
    THEN clip_out(api, next_c, 0 - Get(cclip), Get(cclip))
    ELSE clip_out(api, next_c, 0, 0)

\* lines 86-87: if self._cell_clip is not None: F.clip(next_c, ..., out=next_c)
cell_clip_step(api, next_c, cclip) ==
  IF ~IsNone(cclip)
    THEN clip_out(api, next_c, 0 - Get(cclip), Get(cclip))
    ELSE next_c

\* lines 92-93: if self._projection_clip is not None: F.clip(next_r, ..., out=next_r)
projection_clip_step(api, next_r, pclip) ==
  IF ~IsNone(pclip)
    THEN clip_out(api, next_r, 0 - Get(pclip), Get(pclip))
    ELSE next_r

\* hybrid_forward: returns next_r, [next_r, next_c]
hybrid_forward(api, inputs, states, w, cclip, pclip) ==
  LET g      == cell_gates(inputs, states, w)
      next_c == cell_clip_step(api, g.next_c, cclip)
      hidden == VMul(g.out_gate, VTanh(next_c))
      next_r == projection_clip_step(
                  api, FullyConnectedNoBias(hidden, w.h2r_weight), pclip)
  IN  [out |-> next_r, next_r |-> next_r, next_c |-> next_c]

\* the equations of the class docstring (lines 9-15), no clipping anywhere
lstmp_equations(inputs, states, w) ==
  LET Row(m, k) == m[k]
      pre(k) == Dot(Row(w.i2h_weight, k), inputs, Len(inputs)) + w.i2h_bias[k]
                + Dot(Row(w.h2h_weight, k), states[1], Len(states[1]))
                + w.h2h_bias[k]
      n   == Len(states[2])
      i_t == Tuple([k \in 1..n |-> Sigmoid(pre(k))])
      f_t == Tuple([k \in 1..n |-> Sigmoid(pre(n + k))])
      g_t == Tuple([k \in 1..n |-> Tanh(pre(2 * n + k))])
      o_t == Tuple([k \in 1..n |-> Sigmoid(pre(3 * n + k))])
      c_t == Tuple([k \in 1..n |->
                     Mul(f_t[k], states[2][k]) + Mul(i_t[k], g_t[k])])
      h_t == Tuple([k \in 1..n |-> Mul(o_t[k], Tanh(c_t[k]))])
      r_t == Tuple([k \in DOMAIN w.h2r_weight |->
                     Dot(w.h2r_weight[k], h_t, n)])
  IN  [r_t |-> r_t, c_t |-> c_t]

\* ---- idle values of the other parts
LmIdle ==
  /\ lm = None /\ lm_inputs = None /\ lm_state = None /\ lm_out = None

BuildIdle ==
  /\ script = "" /\ args = None /\ context = 1 /\ bpc = "idle"
  /\ error = None /\ model = None /\ created = <<>>
  /\ initialized = FALSE /\ first_out = None

CellIdle ==
  /\ F = "ndarray" /\ cell_clip = None /\ projection_clip = None
  /\ cell_w = None /\ cell_in = None /\ cell_out = None /\ counter = 0

TrainIdle ==
  /\ tpc = "idle" /\ epoch = 0 /\ train_i = 0 /\ batch_i = 0 /\ total_L = 0
  /\ hiddens = None /\ ev = None /\ handed = None /\ backprop = {}
  /\ chunk = 0 /\ val_L = None /\ test_L = None /\ best_val = None
  /\ update_lr_epoch = None /\ lr = None /\ saved = None
  /\ val_hist = <<>> /\ ppl = None /\ exception = None
  /\ cur_data = <<>> /\ cur_target = <<>> /\ cur_l = None /\ ops = <<>>
  /\ params = 0 /\ scored = {}
  /\ saved_params = None /\ par_hist = <<>> /\ used_params = 0
  /\ train_chunks = <<>> /\ summed = 0

\* ---- the inputs the cell is driven with
ElemVals == {0 - MaxMag, 0, MaxMag}

WeightVals == {0 - Scale, Scale}

Vec(n, S) == [1..n -> S]

\* a matrix of `rows` rows and `cols` columns, every entry v
Const(rows, cols, v) == [r \in 1..rows |-> [c \in 1..cols |-> v]]

ClipOpts == {None} \cup {Some(b) : b \in 1..MaxClip}

Apis == {"ndarray", "symbol"}

CellParams(input_size, wi, wh, wr, bf) ==
  [i2h_weight |-> Const(4 * HiddenSize, input_size, wi),
   i2h_bias   |-> [k \in 1..(4 * HiddenSize) |->
                    IF k > HiddenSize /\ k <= 2 * HiddenSize THEN bf ELSE 0],
   h2h_weight |-> Const(4 * HiddenSize, ProjSize, wh),
   h2h_bias   |-> [k \in 1..(4 * HiddenSize) |-> 0],
   h2r_weight |-> Const(ProjSize, HiddenSize, wr)]

CellInit ==
  /\ F \in Apis
  /\ cell_clip \in ClipOpts
  /\ projection_clip \in ClipOpts
  /\ \E wi \in WeightVals, wh \in WeightVals, wr \in WeightVals,
        bf \in {0, 2 * Scale} :
       cell_w = CellParams(InputSize, wi, wh, wr, bf)
  /\ \E x \in Vec(InputSize, ElemVals), r \in Vec(ProjSize, {0, MaxMag}),
        c \in Vec(HiddenSize, ElemVals) :
       cell_in = [inputs |-> x, states |-> <<r, c>>]
  /\ cell_out = None
  /\ counter = 0
  /\ LmIdle
  /\ BuildIdle
  /\ TrainIdle

\* one call of the cell on the pending input
CellCall ==
  /\ IsNone(cell_out)
  /\ cell_out' = Some(hybrid_forward(F, cell_in.inputs, cell_in.states,
                                     cell_w, cell_clip, projection_clip))
  /\ counter' = counter + 1
  /\ UNCHANGED <<F, cell_clip, projection_clip, cell_w, cell_in>>
  /\ UNCHANGED <<lmVars, buildVars, trainVars, passVars>>

\* the caller feeds the next input together with the states just returned
CellFeed ==
  /\ ~IsNone(cell_out)
  /\ counter < MaxSteps
  /\ \E x \in Vec(InputSize, ElemVals) :
       cell_in' = [inputs |-> x,
                   states |-> <<Get(cell_out).next_r, Get(cell_out).next_c>>]
  /\ cell_out' = None
  /\ UNCHANGED <<F, cell_clip, projection_clip, cell_w, counter>>
  /\ UNCHANGED <<lmVars, buildVars, trainVars, passVars>>

CellNext == CellCall \/ CellFeed

SpecCell == CellInit /\ [][CellNext]_vars

----------------------------------------------------------------------------
(* Claims about the cell *)

InRange(v, b) == \A k \in DOMAIN v : 0 - b <= v[k] /\ v[k] <= b

MaxAbs(v) == CHOOSE m \in {Abs(v[k]) : k \in DOMAIN v} :
               \A k \in DOMAIN v : Abs(v[k]) <= m

\* C3: with bounds b_c and b_p configured, after one cell step every element
\* of the returned cell state lies in [-b_c, b_c] and every element of the
\* returned output / recurrent state lies in [-b_p, b_p].
C3_OutputsWithinClipBounds ==
  ~IsNone(cell_out) =>
    /\ ~IsNone(cell_clip) => InRange(Get(cell_out).next_c, Get(cell_clip))
    /\ ~IsNone(projection_clip) =>
          InRange(Get(cell_out).next_r, Get(projection_clip))

\* C3, restricted to the imperative API (where out= is honoured)
C3_ImperativeWithinClipBounds ==
  (F = "ndarray") => C3_OutputsWithinClipBounds

\* C4: with both bounds unset one step returns exactly the unclipped
\* projected-LSTM equations; and a bound acts on its own tensor whatever the
\* other bound is: the returned cell state is the same for every projection
\* bound, and the returned output is the same with no cell bound as with a
\* cell bound too large to bind.
C4_UnsetBoundsAreUnclippedEquations ==
  ~IsNone(cell_out) =>
    LET res == Get(cell_out)
        ref == lstmp_equations(cell_in.inputs, cell_in.states, cell_w)
        raw == cell_gates(cell_in.inputs, cell_in.states, cell_w).next_c
        run(cc, pc) == hybrid_forward(F, cell_in.inputs, cell_in.states,
                                      cell_w, cc, pc)
    IN  /\ (IsNone(cell_clip) /\ IsNone(projection_clip)) =>
             (res.next_r = ref.r_t /\ res.next_c = ref.c_t /\ res.out = ref.r_t)
        /\ \A pc \in ClipOpts : run(cell_clip, pc).next_c = res.next_c
        /\ run(Some(MaxAbs(raw)), projection_clip).next_r
             = run(None, projection_clip).next_r

\* C4 witness: a call with both bounds unset whose cell state and output
\* exceed the largest bound that could have been configured
C4_Witness ==
  /\ ~IsNone(cell_out)
  /\ IsNone(cell_clip) /\ IsNone(projection_clip)
  /\ ~InRange(Get(cell_out).next_c, MaxClip)
  /\ ~InRange(Get(cell_out).next_r, MaxClip)

----------------------------------------------------------------------------
(* _get_rnn_cell, ElmoLSTM, ElmoBiLM: the values computed (mode 'lstmp',    *)
(* batch of one)                                                           *)

\* _get_rnn_cell(mode, num_layers, ...): the SequentialRNNCell built, as the
\* sequence of the cells added to it
RECURSIVE get_rnn_cell(_, _, _, _, _, _, _)
get_rnn_cell(mode, num_layers, input_size, hidden_size, dropout, skip_connection, proj_size) ==
  IF num_layers = 0 THEN <<>>
  ELSE get_rnn_cell(mode, num_layers - 1, input_size, hidden_size, dropout,
                    skip_connection, proj_size)
       \o <<[kind |-> IF mode = "lstmp" THEN "LSTMPCellWithClip"
                      ELSE IF mode = "lstm" THEN "LSTMCell"
                      ELSE IF mode = "gru" THEN "GRUCell"
                      ELSE "RNNCell",
             mode |-> mode, input_size |-> input_size,
             hidden_size |-> hidden_size, proj_size |-> proj_size,
             residual |-> skip_connection]>>
       \o (IF dropout # 0 THEN <<[kind |-> "DropoutCell"]>> ELSE <<>>)

\* (mutant) every layer after the first takes an input of hidden_size
lstm_input_size_hidden(cfg, layer_index) ==
  IF layer_index = 0 THEN cfg.input_size ELSE cfg.hidden_size

\* lstm_input_size on entry to iteration layer_index of ElmoLSTM.__init__
lstm_input_size(cfg, layer_index) ==
  IF layer_index = 0 THEN cfg.input_size
  ELSE IF cfg.mode = "lstmp" THEN cfg.proj_size ELSE cfg.hidden_size

\* ElmoLSTM.__init__: forward_layer_<j> and backward_layer_<j> for
\* j = 0 .. num_layers-1 (element j+1 of the sequence)
ElmoLSTM_init(cfg) ==
  LET layer(j) ==
        get_rnn_cell(cfg.mode, 1, lstm_input_size(cfg, j), cfg.hidden_size,
                     IF j = cfg.num_layers - 1 THEN 0 ELSE cfg.dropout,
                     IF j = 0 THEN FALSE ELSE cfg.skip_connection,
                     cfg.proj_size)
  IN  [forward_layer  |-> [j \in 1..cfg.num_layers |-> layer(j - 1)],
       backward_layer |-> [j \in 1..cfg.num_layers |-> layer(j - 1)]]

\* Dropout with the mask value `mask` on every element
Dropout(x, mask) == Tuple([k \in DOMAIN x |-> Mul(x[k], mask)])

\* what a layer makes of its cell's result: the input added by a
\* ResidualCell, then the DropoutCell, if the layer has them
layer_output(layer, mask, x, res) ==
  LET out1 == IF layer[1].residual THEN VAdd(res.out, x) ELSE res.out
      out2 == IF Len(layer) > 1 THEN Dropout(out1, mask) ELSE out1
  IN  [out |-> out2, state |-> <<res.next_r, res.next_c>>]

\* one call of a layer (a SequentialRNNCell holding the cell and, after
\* it, a DropoutCell or not)
layer_call(m, layer, w, mask, x, state) ==
  layer_output(layer, mask, x,
               hybrid_forward(m.api, x, state, w, m.cell_clip, m.proj_clip))

\* outputs_forward[j].append(output); states_forward[j] = new state
append_output(outputs, r) ==
  [outputs |-> Append(outputs, r.out), state |-> r.state]

\* (mutant) a backward output is stored in the order the steps are run
store_output_in_run_order(outputs, i, r) ==
  [outputs |-> [outputs EXCEPT ![Len(outputs) + 1 - i] = r.out],
   state |-> r.state]

\* outputs_backward[j][i] = output; states_backward[j] = new state
store_output(outputs, i, r) ==
  [outputs |-> [outputs EXCEPT ![i] = r.out], state |-> r.state]

\* lines 188-194: time steps 1..n in increasing order
RECURSIVE scan_forward(_, _, _, _, _, _, _)
scan_forward(m, layer, w, mask, xs, state, n) ==
  IF n = 0 THEN [outputs |-> <<>>, state |-> state]
  ELSE LET prev == scan_forward(m, layer, w, mask, xs, state, n - 1)
       IN  append_output(prev.outputs,
                         layer_call(m, layer, w, mask, xs[n], prev.state))

\* lines 196-203: time steps in decreasing order down to i, each output
\* stored at its own index of a list pre-filled with None
RECURSIVE scan_backward(_, _, _, _, _, _, _)
scan_backward(m, layer, w, mask, xs, state, i) ==
  IF i > Len(xs) THEN [outputs |-> Tuple([t \in 1..Len(xs) |-> None]),
                       state |-> state]
  ELSE LET prev == scan_backward(m, layer, w, mask, xs, state, i + 1)
       IN  store_output(prev.outputs, i,
                        layer_call(m, layer, w, mask, xs[i], prev.state))

\* (mutant) from the second layer on the backward cell reads the forward
\* outputs of the layer below
layer_input_crossed(dir, j, inputs, below_forward, below_backward) ==
  IF j = 0 THEN (IF dir = "forward" THEN inputs[1] ELSE inputs[2])
  ELSE below_forward

\* lines 189-192 and 198-201: what layer j reads, word mode
layer_input(dir, j, inputs, below_forward, below_backward) ==
  IF j = 0 THEN (IF dir = "forward" THEN inputs[1] ELSE inputs[2])
  ELSE (IF dir = "forward" THEN below_forward ELSE below_backward)

\* lines 186-203: layers 0 .. n-1, each after the one below it
RECURSIVE elmo_layers(_, _, _, _)
elmo_layers(m, inputs, states, n) ==
  IF n = 0 THEN <<>>
  ELSE LET below == elmo_layers(m, inputs, states, n - 1)
           bf == IF n = 1 THEN <<>> ELSE below[n - 1].forward.outputs
           bb == IF n = 1 THEN <<>> ELSE below[n - 1].backward.outputs
           xf == layer_input("forward", n - 1, inputs, bf, bb)
           xb == layer_input("backward", n - 1, inputs, bf, bb)
       IN  Append(below,
             [forward  |-> scan_forward(m, m.encoder.forward_layer[n],
                             m.w_forward[n], m.mask_forward, xf,
                             states[1][n], Len(xf)),
              backward |-> scan_backward(m, m.encoder.backward_layer[n],
                             m.w_backward[n], m.mask_backward, xb,
                             states[2][n], 1)])

\* begin_state: zeros for every layer, forward and backward
begin_state(m) ==
  LET z == [j \in 1..m.cfg.num_layers |->
             <<[k \in 1..m.cfg.proj_size |-> 0],
               [k \in 1..m.cfg.hidden_size |-> 0]>>]
  IN  <<z, z>>

\* lines 205-209: the per-layer outputs and final states that are returned
stack_outputs(m, ls) ==
  LET L == 1..m.cfg.num_layers
  IN  [outputs_forward  |-> Tuple([j \in L |-> ls[j].forward.outputs]),
       outputs_backward |-> Tuple([j \in L |-> ls[j].backward.outputs]),
       states_forward   |-> Tuple([j \in L |-> ls[j].forward.state]),
       states_backward  |-> Tuple([j \in L |-> ls[j].backward.state])]

\* ElmoLSTM.forward(inputs, states), word mode
ElmoLSTM_forward(m, inputs, states) ==
  stack_outputs(m, elmo_layers(m, inputs,
                               IF IsNone(states) THEN begin_state(m)
                                                 ELSE states,
                               m.cfg.num_layers))

\* self.embedding: the table row of every token, then Dropout if configured
embedding(m, tokens, mask) ==
  Tuple([t \in DOMAIN tokens |->
           IF m.cfg.dropout # 0
             THEN Dropout(m.embedding_weight[tokens[t] + 1], mask)
             ELSE m.embedding_weight[tokens[t] + 1]])

\* self.decoder: Dense(vocab_size, flatten=False) on every time step
decoder(m, xs) ==
  Tuple([t \in DOMAIN xs |->
           FullyConnected(xs[t], m.decoder_weight, m.decoder_bias)])

\* encoded[d][-1]: the last element of the per-layer list of outputs
top_layer(outputs) == outputs[Len(outputs)]

\* lines 298-308: from the encoder's result to what forward returns
decode_top(m, enc) ==
  LET drop(xs, mask) == IF m.cfg.dropout # 0
                          THEN Tuple([t \in DOMAIN xs |-> Dropout(xs[t], mask)])
                          ELSE xs
      encoded_forward  == drop(top_layer(enc.outputs_forward), m.mask_forward)
      encoded_backward == drop(top_layer(enc.outputs_backward), m.mask_backward)
  IN  [forward_out  |-> decoder(m, encoded_forward),
       backward_out |-> decoder(m, encoded_backward),
       encoded      |-> enc,
       state        |-> <<enc.states_forward, enc.states_backward>>]

\* ElmoBiLM.forward(inputs, begin_state), word mode
ElmoBiLM_forward(m, inputs, state) ==
  decode_top(m, ElmoLSTM_forward(
                  m,
                  <<embedding(m, inputs[1], m.mask_forward),
                    embedding(m, inputs[2], m.mask_backward)>>,
                  IF IsNone(state) THEN begin_state(m) ELSE state))

\* ---- the models and inputs ElmoBiLM is driven with
TokenVals == {0, 1}

Streams(n) == [1..n -> TokenVals]

LmConfig(num_layers, dropout, skip_connection) ==
  [mode |-> "lstmp", num_layers |-> num_layers, input_size |-> InputSize,
   hidden_size |-> HiddenSize, proj_size |-> ProjSize,
   dropout |-> dropout, skip_connection |-> skip_connection]

\* an ElmoBiLM with its parameters; forward and backward cells have
\* parameters of their own
LmModel(cfg, api, cclip, pclip, mf, mb) ==
  [cfg |-> cfg, api |-> api, cell_clip |-> cclip, proj_clip |-> pclip,
   encoder |-> ElmoLSTM_init(cfg),
   w_forward  |-> [j \in 1..cfg.num_layers |->
                    CellParams(lstm_input_size(cfg, j - 1),
                               Scale, Scale, Scale, 0)],
   w_backward |-> [j \in 1..cfg.num_layers |->
                    CellParams(lstm_input_size(cfg, j - 1),
                               Scale, 0 - Scale, 0 - Scale, 2 * Scale)],
   mask_forward |-> mf, mask_backward |-> mb,
   embedding_weight |-> [k \in 1..Cardinality(TokenVals) |->
                          [e \in 1..cfg.input_size |->
                             IF k = 1 THEN 0 - MaxMag ELSE MaxMag \div k]],
   decoder_weight |-> [k \in 1..Cardinality(TokenVals) |->
                        [e \in 1..cfg.proj_size |->
                           IF k = 1 THEN Scale ELSE 0 - Scale]],
   decoder_bias |-> [k \in 1..Cardinality(TokenVals) |-> k - 1]]

\* a state carried over from an earlier chunk
CarriedState(cfg) ==
  LET st(v) == [j \in 1..cfg.num_layers |->
                 <<[k \in 1..cfg.proj_size |-> v],
                   [k \in 1..cfg.hidden_size |-> 0 - v]>>]
  IN  <<st(Scale), st(0 - Scale)>>

\* the API the cells run with and the clip bound of both tensors
ExecOpts == {<<"ndarray", Some(MaxClip)>>, <<"symbol", Some(MaxClip)>>}

\* the masks drawn for the forward and the backward Dropout
MaskOpts ==
  {<<2 * Scale, 2 * Scale>>, <<0, 2 * Scale>>, <<2 * Scale, 0>>}

LmInit ==
  /\ \E num_layers \in 1..MaxLayers, dropout \in {0, 1},
        skip_connection \in BOOLEAN, ex \in ExecOpts, mask \in MaskOpts :
       /\ dropout = 0 => mask = <<2 * Scale, 2 * Scale>>
       /\ lm = LmModel(LmConfig(num_layers, dropout, skip_connection),
                       ex[1], ex[2], ex[2], mask[1], mask[2])
  /\ \E n \in 1..MaxSeq : \E data_source \in Streams(n + 1) :
       lm_inputs = <<SubSeq(data_source, 1, n), SubSeq(data_source, 2, n + 1)>>
  /\ lm_state \in {None, CarriedState(lm.cfg)}
  /\ lm_out = None
  /\ CellIdle
  /\ BuildIdle
  /\ TrainIdle

\* model((data, target), hidden)
LmForward ==
  /\ IsNone(lm_out)
  /\ lm_out' = Some(ElmoBiLM_forward(lm, lm_inputs, lm_state))
  /\ UNCHANGED <<lm, lm_inputs, lm_state>>
  /\ UNCHANGED <<cellVars, buildVars, trainVars, passVars>>

LmNext == LmForward

SpecEncoder == LmInit /\ [][LmNext]_vars

----------------------------------------------------------------------------
(* Claims about the encoder and the language model (values) *)

\* the embedded streams and the states the pending / last call ran on
LmEncoded ==
  <<embedding(lm, lm_inputs[1], lm.mask_forward),
    embedding(lm, lm_inputs[2], lm.mask_backward)>>

LmBegin == IF IsNone(lm_state) THEN begin_state(lm) ELSE lm_state

\* a stream and the initial states of its direction changed: the stream
\* zeroed, permuted (reversed), or replaced by the other embedded stream;
\* the states zero or carried
Alternatives(stream, other) ==
  LET n == Len(stream)
  IN  {<<Tuple([t \in 1..n |-> Tuple([e \in 1..lm.cfg.input_size |-> 0])]),
         CarriedState(lm.cfg)[1]>>,
       <<Tuple([t \in 1..n |-> stream[n + 1 - t]]), begin_state(lm)[1]>>,
       <<other, CarriedState(lm.cfg)[2]>>}

\* C5: in one ElmoLSTM.forward call (word mode, the dropout masks being
\* what they are) the forward outputs and final forward states of every
\* layer stay the same when the backward stream and the initial backward
\* states are replaced by others (zeroed, permuted, another stream), and the
\* backward outputs and final backward states stay the same when the
\* forward stream and the initial forward states are replaced.
C5_DirectionsIndependent ==
  ~IsNone(lm_out) =>
    LET enc == Get(lm_out).encoded
    IN  /\ \A alt \in Alternatives(LmEncoded[2], LmEncoded[1]) :
             LET r == ElmoLSTM_forward(lm, <<LmEncoded[1], alt[1]>>,
                                       <<LmBegin[1], alt[2]>>)
             IN  /\ r.outputs_forward = enc.outputs_forward
                 /\ r.states_forward = enc.states_forward
        /\ \A alt \in Alternatives(LmEncoded[1], LmEncoded[2]) :
             LET r == ElmoLSTM_forward(lm, <<alt[1], LmEncoded[2]>>,
                                       <<alt[2], LmBegin[2]>>)
             IN  /\ r.outputs_backward = enc.outputs_backward
                 /\ r.states_backward = enc.states_backward

\* C5 witness: a call on a stack of several layers with different streams,
\* where replacing the backward stream does change the backward outputs and
\* replacing the forward stream does change the forward outputs
C5_Witness ==
  /\ ~IsNone(lm_out)
  /\ lm.cfg.num_layers > 1
  /\ lm_inputs[1] # lm_inputs[2]
  /\ \E alt \in Alternatives(LmEncoded[2], LmEncoded[1]) :
       ElmoLSTM_forward(lm, <<LmEncoded[1], alt[1]>>,
                        <<LmBegin[1], alt[2]>>).outputs_backward
         # Get(lm_out).encoded.outputs_backward
  /\ \E alt \in Alternatives(LmEncoded[1], LmEncoded[2]) :
       ElmoLSTM_forward(lm, <<alt[1], LmEncoded[2]>>,
                        <<alt[2], LmBegin[2]>>).outputs_forward
         # Get(lm_out).encoded.outputs_forward

----------------------------------------------------------------------------
(* ElmoBiLM.__init__ and the shapes ElmoBiLM.forward computes *)

\* _get_embedding: Embedding(vocab_size, embed_size), then Dropout if set;
\* params is the parameter set the block owns
get_embedding(cfg) ==
  [layers |-> <<"Embedding">>
              \o (IF cfg.dropout # 0 THEN <<"Dropout">> ELSE <<>>),
   params |-> [owner |-> "embedding",
               weight |-> <<cfg.vocab_size, cfg.embed_size>>]]

\* _get_encoder
get_encoder(cfg) ==
  ElmoLSTM_init([mode |-> cfg.mode, num_layers |-> cfg.num_layers,
                 input_size |-> cfg.embed_size,
                 hidden_size |-> cfg.hidden_size, proj_size |-> cfg.proj_size,
                 dropout |-> cfg.dropout,
                 skip_connection |-> cfg.skip_connection])

\* _get_decoder: Dense(vocab_size, flatten=False), with params= the
\* embedding's parameter set when tied; an own weight has its input size
\* left open (0) until the first call
get_decoder(cfg, emb) ==
  IF cfg.tie_weights
    THEN [units |-> cfg.vocab_size, params |-> emb.params]
    ELSE [units |-> cfg.vocab_size,
          params |-> [owner |-> "decoder", weight |-> <<cfg.vocab_size, 0>>]]

\* (mutant) the sizes are compared after the sub-modules are created
ElmoBiLM_init_late_check(cfg) ==
  LET emb == get_embedding(cfg)
  IN  IF cfg.tie_weights /\ cfg.embed_size # cfg.hidden_size
        THEN [error |-> Some([type |-> "AssertionError", at |-> "tie"]),
              created |-> <<"embedding", "encoder", "decoder">>,
              model |-> None]
        ELSE [error |-> None,
              created |-> <<"embedding", "encoder", "decoder">>,
              model |-> Some([cfg |-> cfg, embedding |-> emb,
                              encoder |-> get_encoder(cfg),
                              decoder |-> get_decoder(cfg, emb)])]

\* ElmoBiLM.__init__
ElmoBiLM_init(cfg) ==
  IF cfg.tie_weights /\ cfg.embed_size # cfg.hidden_size
    THEN [error |-> Some([type |-> "AssertionError", at |-> "tie"]),
          created |-> <<>>, model |-> None]
    ELSE LET emb == get_embedding(cfg)
         IN  [error |-> None,
              created |-> <<"embedding", "encoder", "decoder">>,
              model |-> Some([cfg |-> cfg, embedding |-> emb,
                              encoder |-> get_encoder(cfg),
                              decoder |-> get_decoder(cfg, emb)])]

\* the size of the vectors a cell emits
cell_out_size(c) == IF c.mode = "lstmp" THEN c.proj_size ELSE c.hidden_size

\* one layer on vectors of size d: the size it emits, or None when the
\* cell's input weight or the residual addition does not fit
layer_shape(layer, d) ==
  LET c == layer[1]
  IN  IF IsNone(d) \/ Get(d) # c.input_size THEN None
      ELSE IF c.residual /\ cell_out_size(c) # Get(d) THEN None
      ELSE Some(cell_out_size(c))

\* ElmoLSTM.forward: the size layer n-1 emits (layers 0 .. n-1 in order)
RECURSIVE encoder_shape(_, _, _)
encoder_shape(layers, n, d) ==
  IF n = 0 THEN d ELSE layer_shape(layers[n], encoder_shape(layers, n - 1, d))

\* the Dense layer on vectors of size d: the weight's input size is fixed
\* for a shared weight and taken from d for an own weight
decoder_shape(dec, d) ==
  IF IsNone(d) THEN None
  ELSE IF dec.params.weight[2] # 0 /\ dec.params.weight[2] # Get(d) THEN None
  ELSE Some(dec.units)

\* ElmoBiLM.forward on inputs of shape (seq_len, batch), word mode: the
\* shapes of the two logits, the layer they are computed from and the
\* parameter set they are computed with; raised when an operator rejects
\* its operands
ElmoBiLM_forward_shape(mdl, seq_len, batch) ==
  LET n  == mdl.cfg.num_layers
      df == encoder_shape(mdl.encoder.forward_layer, n, Some(mdl.cfg.embed_size))
      db == encoder_shape(mdl.encoder.backward_layer, n, Some(mdl.cfg.embed_size))
      of == decoder_shape(mdl.decoder, df)
      ob == decoder_shape(mdl.decoder, db)
  IN  IF IsNone(of) \/ IsNone(ob)
        THEN [raised |-> TRUE, inputs |-> <<seq_len, batch>>]
        ELSE [raised |-> FALSE, inputs |-> <<seq_len, batch>>,
              forward_out  |-> <<seq_len, batch, Get(of)>>,
              backward_out |-> <<seq_len, batch, Get(ob)>>,
              from_layer |-> n - 1,
              forward_through  |-> mdl.decoder.params,
              backward_through |-> mdl.decoder.params]

----------------------------------------------------------------------------
(* The start of the two scripts: option checks, data, model, parameters *)

Scripts == {"word_language_model", "bi_language_model"}
SizeOpts == {2, 4}
VocabSizes == {3}
SeqLens == {1, 3}

\* the options the parser of each script defines (those the start reads)
ParsedArgs(sc, o) ==
  IF sc = "word_language_model"
    THEN [model |-> o.model, emsize |-> o.emsize, nhid |-> o.nhid,
          projsize |-> o.projsize, nlayers |-> o.nlayers,
          batch_size |-> o.batch_size, dropout |-> o.dropout,
          weight_dropout |-> o.weight_dropout, tied |-> o.tied,
          skip_connection |-> o.skip_connection, alpha |-> o.alpha]
    ELSE [model |-> o.model, emsize |-> o.emsize, nhid |-> o.nhid,
          projsize |-> o.projsize, nlayers |-> o.nlayers,
          batch_size |-> o.batch_size, dropout |-> o.dropout,
          tied |-> o.tied,
          skip_connection |-> o.skip_connection, alpha |-> o.alpha]

CommandLines ==
  [model : {"lstm", "lstmp", "gru"}, emsize : SizeOpts, nhid : {4},
   projsize : SizeOpts, nlayers : 1..MaxLayers, batch_size : {2, 3},
   dropout : {0, 1}, weight_dropout : {0, 1}, tied : BOOLEAN,
   skip_connection : BOOLEAN, alpha : {0, 2}]

BuildInit ==
  /\ script \in Scripts
  /\ \E o \in CommandLines : args = ParsedArgs(script, o)
  /\ context \in {1, 2}
  /\ bpc = "start"
  /\ error = None
  /\ model = None
  /\ created = <<>>
  /\ initialized = FALSE
  /\ first_out = None
  /\ CellIdle
  /\ LmIdle
  /\ TrainIdle

Abort(type, at) ==
  /\ bpc' = "aborted"
  /\ error' = Some([type |-> type, at |-> at])

\* assert args.batch_size % len(context) == 0
CheckBatchSize ==
  /\ bpc = "start"
  /\ IF args.batch_size % context = 0
       THEN bpc' = "batch_checked" /\ error' = error
       ELSE Abort("AssertionError", "batch_size")
  /\ UNCHANGED <<script, args, context, model, created, initialized, first_out>>
  /\ UNCHANGED <<cellVars, lmVars, trainVars, passVars>>

\* assert args.weight_dropout > 0 or
\*        (args.weight_dropout == 0 and args.alpha == 0)
CheckAlpha ==
  /\ bpc = "batch_checked"
  /\ IF "weight_dropout" \notin DOMAIN args
       THEN Abort("AttributeError", "alpha")
       ELSE IF args.weight_dropout > 0
               \/ (args.weight_dropout = 0 /\ args.alpha = 0)
         THEN bpc' = "alpha_checked" /\ error' = error
         ELSE Abort("AssertionError", "alpha")
  /\ UNCHANGED <<script, args, context, model, created, initialized, first_out>>
  /\ UNCHANGED <<cellVars, lmVars, trainVars, passVars>>

\* the data sets are read and batchified
LoadData ==
  /\ bpc = "alpha_checked"
  /\ bpc' = "data_loaded"
  /\ UNCHANGED <<script, args, context, error, model, created, initialized,
                 first_out>>
  /\ UNCHANGED <<cellVars, lmVars, trainVars, passVars>>

ModelConfig(a, vocab_size) ==
  [mode |-> a.model, vocab_size |-> vocab_size, embed_size |-> a.emsize,
   hidden_size |-> a.nhid, num_layers |-> a.nlayers,
   tie_weights |-> a.tied, dropout |-> a.dropout,
   skip_connection |-> a.skip_connection, proj_size |-> a.projsize]

\* model = ElmoBiLM(...)
BuildModel ==
  /\ bpc = "data_loaded"
  /\ script = "word_language_model"
  /\ \E vocab_size \in VocabSizes :
       LET r == ElmoBiLM_init(ModelConfig(args, vocab_size))
       IN  /\ model' = r.model
           /\ created' = r.created
           /\ error' = r.error
           /\ bpc' = IF IsNone(r.error) THEN "constructed" ELSE "aborted"
  /\ UNCHANGED <<script, args, context, initialized, first_out>>
  /\ UNCHANGED <<cellVars, lmVars, trainVars, passVars>>

\* model.initialize(mx.init.Xavier(), ctx=context); model.hybridize()
Initialize ==
  /\ bpc = "constructed"
  /\ initialized' = TRUE
  /\ bpc' = "initialized"
  /\ UNCHANGED <<script, args, context, error, model, created, first_out>>
  /\ UNCHANGED <<cellVars, lmVars, trainVars, passVars>>

\* the first call of the model, on one device's share of a batch
FirstCall ==
  /\ bpc = "initialized"
  /\ \E seq_len \in SeqLens :
       LET r == ElmoBiLM_forward_shape(Get(model), seq_len,
                                       args.batch_size \div context)
       IN  /\ first_out' = Some(r)
           /\ error' = IF r.raised
                         THEN Some([type |-> "MXNetError", at |-> "forward"])
                         ELSE error
           /\ bpc' = IF r.raised THEN "aborted" ELSE "called"
  /\ UNCHANGED <<script, args, context, model, created, initialized>>
  /\ UNCHANGED <<cellVars, lmVars, trainVars, passVars>>

BuildNext ==
  \/ CheckBatchSize
  \/ CheckAlpha
  \/ LoadData
  \/ BuildModel
  \/ Initialize
  \/ FirstCall

SpecBuild == BuildInit /\ [][BuildNext]_vars

----------------------------------------------------------------------------
(* Properties of construction and of the start of the scripts *)

TieMismatch == args.tied /\ args.emsize # args.nhid
BatchMismatch == args.batch_size % context # 0
AlphaMismatch ==
  "weight_dropout" \in DOMAIN args /\ args.weight_dropout = 0 /\ args.alpha # 0
PastBuild ==
  \/ bpc \in {"constructed", "initialized", "called"}
  \/ bpc = "aborted" /\ Get(error).at \in {"tie", "forward"}

\* C6: constructing ElmoBiLM with tie_weights and embed_size # hidden_size
\* fails with the assertion before any sub-module is created; with equal
\* sizes construction succeeds and the output layer holds the very
\* parameter set of the embedding table.
C6_TiedConstruction ==
  /\ TieMismatch => /\ IsNone(model)
                    /\ created = <<>>
                    /\ bpc \notin {"constructed", "initialized", "called"}
  /\ (TieMismatch /\ PastBuild)
       => error = Some([type |-> "AssertionError", at |-> "tie"])
  /\ (args.tied /\ ~TieMismatch /\ PastBuild)
       => /\ ~IsNone(model)
          /\ created = <<"embedding", "encoder", "decoder">>
          /\ Get(model).decoder.params = Get(model).embedding.params

C6_Witness ==
  /\ TieMismatch
  /\ bpc = "aborted"
  /\ error = Some([type |-> "AssertionError", at |-> "tie"])
  /\ created = <<>>

\* C8: a call of ElmoBiLM.forward on inputs of shape (seq_len, batch)
\* returns forward and backward logits of shape (seq_len, batch,
\* vocab_size), computed from the top layer through one output layer.
C8_LogitShapes ==
  ~IsNone(first_out) =>
    LET r == Get(first_out)
        c == Get(model).cfg
    IN  /\ ~r.raised
        /\ r.forward_out = <<r.inputs[1], r.inputs[2], c.vocab_size>>
        /\ r.backward_out = <<r.inputs[1], r.inputs[2], c.vocab_size>>
        /\ r.from_layer = c.num_layers - 1
        /\ r.forward_through = r.backward_through

\* C9: a batch size that is not a multiple of the device count, tied
\* weights with unequal sizes, and weight dropout 0 with alpha # 0 each
\* abort the script before parameters are initialised or the model is
\* called; a configuration with none of the three passes all the checks.
C9_ConfigErrorsFatalBeforeComputation ==
  /\ (BatchMismatch \/ TieMismatch \/ AlphaMismatch)
       => /\ ~initialized
          /\ IsNone(first_out)
          /\ bpc \notin {"constructed", "initialized", "called"}
  /\ (~BatchMismatch /\ ~TieMismatch /\ ~AlphaMismatch /\ bpc = "aborted")
       => Get(error).at \notin {"batch_size", "alpha", "tie"}

----------------------------------------------------------------------------
(* Losses, perplexity, hidden states *)

\* math.exp raises OverflowError above ln(max double) = 709.78...; the
\* finite losses of the model are whole numbers
ExpMax == 709

\* a loss is a Python float: finite, +inf or nan
Fin(v) == [c |-> "fin", v |-> v]
Inf == [c |-> "inf", v |-> 0]
NaN == [c |-> "nan", v |-> 0]

\* a < b on floats: False whenever an operand is nan
Lt(a, b) ==
  IF a.c = "nan" \/ b.c = "nan" THEN FALSE
  ELSE IF a.c = "inf" THEN FALSE
  ELSE IF b.c = "inf" THEN TRUE
  ELSE a.v < b.v

\* math.exp(x) for x finite, +inf or nan: raises, or returns a float of
\* the class given
math_exp(x) ==
  IF x.c = "fin" /\ x.v > ExpMax
    THEN [raised |-> TRUE, value |-> "none"]
    ELSE [raised |-> FALSE, value |-> x.c]

\* get_ppl(cur_loss): math.exp with every exception mapped to +inf
get_ppl(cur_loss) ==
  IF math_exp(cur_loss).raised THEN "inf" ELSE math_exp(cur_loss).value

\* a hidden state is a nest of lists and tuples of arrays; an array
\* carries the chunks whose recorded computation it was produced by and
\* the tokens (positions of the data source) its value was computed from
Array(graph, tokens) == [kind |-> "array", graph |-> graph, tokens |-> tokens]
List(items) == [kind |-> "list", items |-> items]

\* (mutant) detach returns what it was given
detach_keeps_graph(hidden) == hidden

\* detach(hidden)
RECURSIVE detach(_)
detach(hidden) ==
  IF hidden.kind = "list"
    THEN List([k \in DOMAIN hidden.items |-> detach(hidden.items[k])])
    ELSE Array({}, hidden.tokens)

\* the arrays of a hidden state
RECURSIVE Arrays(_)
Arrays(hidden) ==
  IF hidden.kind = "list"
    THEN UNION {Arrays(hidden.items[k]) : k \in DOMAIN hidden.items}
    ELSE {hidden}

Graph(hidden) == UNION {a.graph : a \in Arrays(hidden)}

Tokens(hidden) == UNION {a.tokens : a \in Arrays(hidden)}

\* model.begin_state(..., func=mx.nd.zeros): per direction and layer the
\* arrays of one cell state, none of them produced by recorded computation
model_begin_state(num_layers) ==
  LET cell == List(<<Array({}, {}), Array({}, {})>>)
      dir  == List([j \in 1..num_layers |-> cell])
  IN  List(<<dir, dir>>)

\* the elements of a sequence
Range(seq) == {seq[k] : k \in DOMAIN seq}

\* one direction of the state a model call returns: the cell of layer j
\* starts from its own begin state and reads the layer below, so its final
\* state is computed from the begin states of layers 0..j and the whole
\* input stream; under autograd.record() its computation is recorded (g)
dir_after(dir, g, recording, stream) ==
  List([j \in DOMAIN dir.items |->
          List([k \in DOMAIN dir.items[j].items |->
                  Array(IF recording THEN g ELSE {},
                        UNION {Tokens(dir.items[m]) : m \in 1..j}
                          \cup Range(stream))])])

\* the state a model call on (data, target) returns for the begin state h
\* = (states_forward, states_backward): the forward cells read data, the
\* backward cells read target
model_call(h, n, recording, data, target) ==
  List(<<dir_after(h.items[1], Graph(h) \cup {n}, recording, data),
         dir_after(h.items[2], Graph(h) \cup {n}, recording, target)>>)

\* the logits a model call on (data, target) returns for the begin state
\* h, each with the tokens it is computed from and the token that scores
\* it: output[0][t] is computed by the forward cells after steps 0..t of
\* data and is scored by target[t] (loss(output[0], target)); output[1][t]
\* by the backward cells after steps len-1..t of target and is scored by
\* data[t] (loss(output[1], data))
model_logits(h, data, target) ==
  {[dir |-> "forward", at |-> data[t], scored_by |-> target[t],
    from |-> Tokens(h.items[1]) \cup {data[k] : k \in 1..t}]
     : t \in DOMAIN data}
  \cup
  {[dir |-> "backward", at |-> data[t], scored_by |-> data[t],
    from |-> Tokens(h.items[2]) \cup {target[k] : k \in t..Len(target)}]
     : t \in DOMAIN data}

\* data_source[a:b] for 0 <= a <= b
Slice(data_source, a, b) ==
  SubSeq(data_source, a + 1, Min(b, Len(data_source)))

\* (mutant) the chunk length is bounded by len(data_source) - 2 - i
get_batch_one_short(data_source, i, seq_len, bptt) ==
  LET n == Min(IF ~IsNone(seq_len) /\ Get(seq_len) # 0 THEN Get(seq_len)
                                                      ELSE bptt,
               Len(data_source) - 2 - i)
  IN  [data |-> Slice(data_source, i, i + n),
       target |-> Slice(data_source, i + 1, i + 1 + n)]

\* get_batch(data_source, i, seq_len): seq_len is None or Some(length)
get_batch(data_source, i, seq_len, bptt) ==
  LET n == Min(IF ~IsNone(seq_len) /\ Get(seq_len) # 0 THEN Get(seq_len)
                                                      ELSE bptt,
               Len(data_source) - 1 - i)
  IN  [data |-> Slice(data_source, i, i + n),
       target |-> Slice(data_source, i + 1, i + 1 + n)]

\* gluon.utils.split_and_load(data, context, batch_axis=1): the part of
\* a chunk device j is given, its tokens named by position and shard; an
\* unsplit chunk (evaluate) is shard 0
shard(seq, j) == [k \in DOMAIN seq |-> <<seq[k], j>>]

\* the data sets: a token is named by its position in the data source
train_data == [p \in 1..TrainLen |-> p]
val_data == [p \in 1..EvalLen |-> p]

\* what forward() of the script returns as encoded_raw and
\* encoded_dropped: encoded_raw holds the encoder's result, a tuple
\* (outputs_forward, outputs_backward); nothing is ever appended to
\* encoded_dropped
forward_encoded_raw == <<[kind |-> "tuple"]>>
forward_encoded_dropped == <<>>

\* seq[-1:]
LastOne(seq) == IF seq = <<>> THEN <<>> ELSE <<seq[Len(seq)]>>

\* the alpha term: mx.nd.add_n over args.alpha * h.__pow__(2).mean() for h
\* in dropped_encoder_hs[-1:]; a tuple has no __pow__, add_n needs at
\* least one array
alpha_term(hs) ==
  IF \E k \in DOMAIN hs : hs[k].kind # "NDArray" THEN "AttributeError"
  ELSE IF hs = <<>> THEN "MXNetError"
  ELSE "ok"

\* the beta term: mx.nd.add_n over args.beta * (h[1:] - h[:-1])....mean()
\* for h in encoder_hs[-1:]; tuples cannot be subtracted
beta_term(hs) ==
  IF \E k \in DOMAIN hs : hs[k].kind # "NDArray" THEN "TypeError"
  ELSE IF hs = <<>> THEN "MXNetError"
  ELSE "ok"

\* criterion(output, target, encoder_hs, dropped_encoder_hs) with the
\* options a: the cross entropy of output against target, and the terms
\* added to it, or the exception raised
criterion(a, output, target, encoder_hs, dropped_encoder_hs) ==
  LET ce == [of |-> output, against |-> target]
      with_alpha == a.alpha # 0
      with_beta  == a.beta # 0
      ra == alpha_term(LastOne(dropped_encoder_hs))
      rb == beta_term(LastOne(encoder_hs))
  IN  IF with_alpha /\ ra # "ok"
        THEN [raised |-> TRUE, type |-> ra, loss |-> ce, terms |-> <<>>]
      ELSE IF with_beta /\ rb # "ok"
        THEN [raised |-> TRUE, type |-> rb, loss |-> ce,
              terms |-> IF with_alpha THEN <<"alpha">> ELSE <<>>]
      ELSE [raised |-> FALSE, type |-> "", loss |-> ce,
            terms |-> (IF with_alpha THEN <<"alpha">> ELSE <<>>)
                      \o (IF with_beta THEN <<"beta">> ELSE <<>>)]

\* the operations of one pass of the training loop over n devices, in the
\* order of lines 538-560
RECURSIVE device_ops(_)
device_ops(n) ==
  IF n = 0 THEN <<>>
  ELSE device_ops(n - 1)
       \o << <<"forward", n>>, <<"criterion_forward", n>>,
             <<"criterion_backward", n>> >>

\* (mutant) the backward pass, the clip and the step follow the first
\* device's losses instead of the last device's
batch_ops_no_barrier(n) ==
  << <<"split_and_load", n>>, <<"detach", n>> >> \o device_ops(1)
  \o << <<"backward", n>>, <<"clip_global_norm", n>>, <<"step", n>> >>
  \o SubSeq(device_ops(n), 4, 3 * n)

batch_ops(n) ==
  << <<"split_and_load", n>>, <<"detach", n>> >> \o device_ops(n)
  \o << <<"backward", n>>, <<"clip_global_norm", n>>, <<"step", n>> >>

\* trainer.learning_rate * args.lr_update_factor, on fractions
Times(a, b) == <<a[1] * b[1], a[2] * b[2]>>

----------------------------------------------------------------------------
(* __main__, train() and evaluate() of word_language_model.py, for a run  *)
(* without --eval_only and --load                                          *)

BatchLosses == {1, 800}
EvalLosses == {Fin(1), Fin(2), Fin(800), Inf, NaN}

\* the options train() and evaluate() read, on top of those of the model
\* the defaults the parser of each script gives --alpha and --beta
ParserDefaults(sc) ==
  IF sc = "word_language_model" THEN [alpha |-> 2, beta |-> 1]
                                ELSE [alpha |-> 0, beta |-> 0]

TrainArgs(epochs, interval, bptt, log_interval, alpha, beta) ==
  [model |-> "lstm", emsize |-> 2, nhid |-> 4, projsize |-> 2, nlayers |-> 1,
   batch_size |-> 2, dropout |-> 0, weight_dropout |-> 1, tied |-> FALSE,
   skip_connection |-> FALSE, alpha |-> alpha, beta |-> beta,
   epochs |-> epochs, lr |-> <<30, 1>>, lr_update_interval |-> interval,
   lr_update_factor |-> <<1, 10>>, bptt |-> bptt,
   log_interval |-> log_interval]

Init ==
  /\ script = "word_language_model"
  /\ \E epochs \in 0..MaxEpochs, interval \in 1..MaxInterval,
        bptt \in 1..MaxBptt, log_interval \in {1, 2},
        alpha \in {0, ParserDefaults(script).alpha},
        beta \in {0, ParserDefaults(script).beta} :
       args = TrainArgs(epochs, interval, bptt, log_interval, alpha, beta)
  /\ context \in {1, 2}
  /\ bpc = "initialized"
  /\ error = None
  /\ \E vocab_size \in VocabSizes :
       /\ model = ElmoBiLM_init(ModelConfig(args, vocab_size)).model
       /\ created = ElmoBiLM_init(ModelConfig(args, vocab_size)).created
  /\ initialized = TRUE
  /\ first_out = None
  /\ tpc = "main"
  /\ epoch = 0 /\ train_i = 0 /\ batch_i = 0 /\ total_L = 0
  /\ hiddens = None /\ ev = None /\ handed = None /\ backprop = {}
  /\ chunk = 0 /\ val_L = None /\ test_L = None /\ best_val = None
  /\ update_lr_epoch = None
  /\ lr = args.lr
  /\ saved = None
  /\ val_hist = <<>> /\ ppl = None /\ exception = None
  /\ cur_data = <<>> /\ cur_target = <<>> /\ cur_l = None /\ ops = <<>>
  /\ params = 0 /\ scored = {}
  /\ saved_params = None /\ par_hist = <<>> /\ used_params = 0
  /\ train_chunks = <<>> /\ summed = 0
  /\ CellIdle
  /\ LmIdle

Raise(type, at) ==
  /\ tpc' = "raised"
  /\ exception' = Some([type |-> type, at |-> at])

\* (mutant) the states are created once, before the first epoch
fresh_hiddens_once ==
  IF IsNone(hiddens)
    THEN List([j \in 1..context |->
                model_begin_state(Get(model).cfg.num_layers)])
    ELSE hiddens

\* lines 532-533: a zero begin state for every device
fresh_hiddens ==
  List([j \in 1..context |-> model_begin_state(Get(model).cfg.num_layers)])

\* the call frame of evaluate(data_source, batch_size, ctx) on entry, with
\* the data chunks its loop has been through
evaluate_frame ==
  Some([i |-> 0, hidden |-> model_begin_state(Get(model).cfg.num_layers),
        chunks |-> <<>>])

\* lines 604-605 and 525-527: train() is entered
TrainEnter ==
  /\ tpc = "main"
  /\ best_val' = Some(Inf)
  /\ tpc' = "epoch_head"
  /\ UNCHANGED <<epoch, train_i, batch_i, total_L, hiddens, ev, handed,
                 backprop, chunk, val_L, test_L, update_lr_epoch, lr, saved,
                 val_hist, ppl, exception>>
  /\ UNCHANGED <<cellVars, lmVars, buildVars, passVars>>

\* lines 528-534: an epoch begins
EpochHead ==
  /\ tpc = "epoch_head"
  /\ epoch < args.epochs
  /\ total_L' = 0
  /\ hiddens' = fresh_hiddens
  /\ batch_i' = 0
  /\ train_i' = 0
  /\ tpc' = "batches"
  /\ UNCHANGED <<epoch, ev, handed, backprop, chunk, val_L, test_L, best_val,
                 update_lr_epoch, lr, saved, val_hist, ppl, exception>>
  /\ train_chunks' = <<>>
  /\ summed' = 0
  /\ UNCHANGED <<cur_data, cur_target, cur_l, ops, params, scored,
                 saved_params, par_hist, used_params>>
  /\ UNCHANGED <<cellVars, lmVars, buildVars>>

\* lines 535-573: one pass of the while loop
TrainBatch ==
  /\ tpc = "batches"
  /\ train_i < Len(train_data) - 1 - 1
  /\ LET seq_len == args.bptt
         b    == get_batch(train_data, train_i, Some(seq_len), args.bptt)
         h_in == detach(hiddens)
         l_fw == criterion(args, "output[0]", "y", forward_encoded_raw,
                           forward_encoded_dropped)
         l_bw == criterion(args, "output[1]", "X", forward_encoded_raw,
                           forward_encoded_dropped)
     IN  /\ cur_data' = b.data
         /\ cur_target' = b.target
         /\ train_chunks' = Append(train_chunks, b.data)
         /\ handed' = Some(h_in)
         /\ chunk' = chunk + 1
         /\ scored' = UNION {model_logits(h_in.items[j], shard(b.data, j),
                                          shard(b.target, j))
                               : j \in DOMAIN h_in.items}
         /\ IF l_fw.raised
              THEN /\ cur_l' = Some(l_fw)
                   /\ hiddens' = h_in
                   /\ ops' = SubSeq(batch_ops(context), 1, 3)
                   /\ Raise(l_fw.type, "criterion")
                   /\ UNCHANGED <<backprop, params, total_L, train_i, batch_i,
                                  ppl, summed>>
              ELSE /\ cur_l' = Some(l_bw)
                   /\ hiddens' = List([j \in DOMAIN h_in.items |->
                                        model_call(h_in.items[j], chunk + 1,
                                                   TRUE, shard(b.data, j),
                                                   shard(b.target, j))])
                   /\ backprop' = Graph(hiddens')
                   /\ ops' = batch_ops(context)
                   /\ params' = params + 1
                   /\ \E batch_L \in BatchLosses :
                        IF batch_i % args.log_interval = 0 /\ batch_i > 0
                          THEN LET cur_L == Fin((total_L + batch_L)
                                                  \div args.log_interval)
                               IN  /\ ppl' = Some([at |-> "log",
                                                   loss |-> cur_L,
                                                   result |-> math_exp(cur_L),
                                                   batch_i |-> batch_i,
                                                   batches |-> summed + 1])
                                   /\ IF math_exp(cur_L).raised
                                        THEN /\ Raise("OverflowError", "log")
                                             /\ total_L' = total_L + batch_L
                                             /\ summed' = summed + 1
                                             /\ UNCHANGED <<train_i, batch_i>>
                                        ELSE /\ total_L' = 0
                                             /\ summed' = 0
                                             /\ train_i' = train_i + seq_len
                                             /\ batch_i' = batch_i + 1
                                             /\ UNCHANGED <<tpc, exception>>
                          ELSE /\ total_L' = total_L + batch_L
                               /\ summed' = summed + 1
                               /\ train_i' = train_i + seq_len
                               /\ batch_i' = batch_i + 1
                               /\ UNCHANGED <<tpc, exception, ppl>>
  /\ UNCHANGED <<epoch, ev, val_L, test_L, best_val, update_lr_epoch, lr,
                 saved, val_hist>>
  /\ UNCHANGED <<saved_params, par_hist, used_params>>
  /\ UNCHANGED <<cellVars, lmVars, buildVars>>

\* lines 575-579: the while loop ends and evaluate(val_data, ...) is called
Validate ==
  /\ tpc = "batches"
  /\ ~(train_i < Len(train_data) - 1 - 1)
  /\ ev' = evaluate_frame
  /\ tpc' = "validate"
  /\ UNCHANGED <<epoch, train_i, batch_i, total_L, hiddens, handed, backprop,
                 chunk, val_L, test_L, best_val, update_lr_epoch, lr, saved,
                 val_hist, ppl, exception>>
  /\ UNCHANGED <<cellVars, lmVars, buildVars, passVars>>

\* lines 423-437: one pass of the for loop of evaluate()
EvalBatch ==
  /\ ~IsNone(ev)
  /\ Get(ev).i < Len(val_data) - 1
  /\ LET b == get_batch(val_data, Get(ev).i, None, args.bptt)
     IN  /\ cur_data' = b.data
         /\ cur_target' = b.target
         /\ scored' = model_logits(Get(ev).hidden, shard(b.data, 0),
                                   shard(b.target, 0))
         /\ ev' = Some([i |-> Get(ev).i + args.bptt,
                        chunks |-> Append(Get(ev).chunks, b.data),
                        hidden |-> detach(model_call(Get(ev).hidden,
                                                     chunk + 1, FALSE,
                                                     shard(b.data, 0),
                                                     shard(b.target, 0)))])
  /\ handed' = Some(List(<<Get(ev).hidden>>))
  /\ backprop' = {}
  /\ chunk' = chunk + 1
  /\ UNCHANGED <<tpc, epoch, train_i, batch_i, total_L, hiddens, val_L,
                 test_L, best_val, update_lr_epoch, lr, saved, val_hist, ppl,
                 exception>>
  /\ used_params' = params
  /\ UNCHANGED <<cur_l, ops, params, saved_params, par_hist, train_chunks, summed>>
  /\ UNCHANGED <<cellVars, lmVars, buildVars>>

\* line 438: evaluate() returns total_L / ntotal to its caller (lines 579,
\* 586, 608, 609)
EvalReturn ==
  /\ ~IsNone(ev)
  /\ ~(Get(ev).i < Len(val_data) - 1)
  /\ \E loss \in EvalLosses :
       \/ /\ tpc = "validate"
          /\ val_L' = Some(loss)
          /\ val_hist' = Append(val_hist, loss)
          /\ par_hist' = Append(par_hist, used_params)
          /\ ev' = None
          /\ tpc' = "print_val"
          /\ UNCHANGED test_L
       \/ /\ tpc = "test"
          /\ test_L' = Some(loss)
          /\ ev' = None
          /\ tpc' = "save"
          /\ UNCHANGED <<val_L, val_hist, par_hist>>
       \/ /\ tpc = "final_val"
          /\ val_L' = Some(loss)
          /\ ev' = evaluate_frame
          /\ tpc' = "final_test"
          /\ UNCHANGED <<test_L, val_hist, par_hist>>
       \/ /\ tpc = "final_test"
          /\ test_L' = Some(loss)
          /\ ev' = None
          /\ tpc' = "final_print"
          /\ UNCHANGED <<val_L, val_hist, par_hist>>
  /\ UNCHANGED <<epoch, train_i, batch_i, total_L, hiddens, handed, backprop,
                 chunk, best_val, update_lr_epoch, lr, saved, ppl, exception>>
  /\ UNCHANGED <<cur_data, cur_target, cur_l, ops, params, scored,
                 saved_params, used_params, train_chunks, summed>>
  /\ UNCHANGED <<cellVars, lmVars, buildVars>>

\* lines 580-581: the validation summary
PrintVal ==
  /\ tpc = "print_val"
  /\ ppl' = Some([at |-> "val", loss |-> Get(val_L),
                  result |-> math_exp(Get(val_L))])
  /\ IF math_exp(Get(val_L)).raised
       THEN Raise("OverflowError", "val")
       ELSE tpc' = "decide" /\ UNCHANGED exception
  /\ UNCHANGED <<epoch, train_i, batch_i, total_L, hiddens, ev, handed,
                 backprop, chunk, val_L, test_L, best_val, update_lr_epoch,
                 lr, saved, val_hist>>
  /\ UNCHANGED <<cellVars, lmVars, buildVars, passVars>>

\* (mutant) a test loss below best_val counts as an improvement too
improved_or_test_better ==
  \/ Lt(Get(val_L), Get(best_val))
  \/ ~IsNone(test_L) /\ Lt(Get(test_L), Get(best_val))

\* line 583: val_L < best_val
improved == Lt(Get(val_L), Get(best_val))

\* lines 583-586: if val_L < best_val, up to the call of evaluate(test_data)
Improved ==
  /\ tpc = "decide"
  /\ improved
  /\ update_lr_epoch' = Some(0)
  /\ best_val' = val_L
  /\ ev' = evaluate_frame
  /\ tpc' = "test"
  /\ UNCHANGED <<epoch, train_i, batch_i, total_L, hiddens, handed, backprop,
                 chunk, val_L, test_L, lr, saved, val_hist, ppl, exception>>
  /\ UNCHANGED <<cellVars, lmVars, buildVars, passVars>>

\* lines 587-588: model.save_params(args.save) and the test summary
SaveParams ==
  /\ tpc = "save"
  /\ saved' = val_L
  /\ saved_params' = Some(params)
  /\ ppl' = Some([at |-> "test", loss |-> Get(test_L),
                  result |-> math_exp(Get(test_L))])
  /\ IF math_exp(Get(test_L)).raised
       THEN Raise("OverflowError", "test") /\ UNCHANGED epoch
       ELSE /\ epoch' = epoch + 1
            /\ tpc' = "epoch_head"
            /\ UNCHANGED exception
  /\ UNCHANGED <<train_i, batch_i, total_L, hiddens, ev, handed, backprop,
                 chunk, val_L, test_L, best_val, update_lr_epoch, lr,
                 val_hist>>
  /\ UNCHANGED <<cur_data, cur_target, cur_l, ops, params, scored, par_hist,
                 used_params, train_chunks, summed>>
  /\ UNCHANGED <<cellVars, lmVars, buildVars>>

\* lines 589-595: the else branch
NotImproved ==
  /\ tpc = "decide"
  /\ ~improved
  /\ IF IsNone(update_lr_epoch)
       THEN /\ Raise("UnboundLocalError", "update_lr_epoch")
            /\ UNCHANGED <<update_lr_epoch, lr, epoch>>
       ELSE LET n == Get(update_lr_epoch) + 1
            IN  /\ IF n % args.lr_update_interval = 0 /\ n # 0
                     THEN /\ lr' = Times(lr, args.lr_update_factor)
                          /\ update_lr_epoch' = Some(0)
                     ELSE /\ update_lr_epoch' = Some(n)
                          /\ UNCHANGED lr
                /\ epoch' = epoch + 1
                /\ tpc' = "epoch_head"
                /\ UNCHANGED exception
  /\ UNCHANGED <<train_i, batch_i, total_L, hiddens, ev, handed, backprop,
                 chunk, val_L, test_L, best_val, saved, val_hist, ppl>>
  /\ UNCHANGED <<cellVars, lmVars, buildVars, passVars>>

\* (mutant) the parameters in memory are kept
load_params_skipped == params

\* line 607: model.load_params(args.save, context), the file being there
load_params == Get(saved_params)

\* lines 597-598 and 607-608: train() returns, the saved parameters are
\* loaded and evaluate(val_data, ...) is called
TrainReturn ==
  /\ tpc = "epoch_head"
  /\ ~(epoch < args.epochs)
  /\ IF IsNone(saved_params)
       THEN Raise("MXNetError", "load_params") /\ UNCHANGED <<ev, params>>
       ELSE /\ params' = load_params
            /\ ev' = evaluate_frame
            /\ tpc' = "final_val"
            /\ UNCHANGED exception
  /\ UNCHANGED <<epoch, train_i, batch_i, total_L, hiddens, handed, backprop,
                 chunk, val_L, test_L, best_val, update_lr_epoch, lr, saved,
                 val_hist, ppl>>
  /\ UNCHANGED <<cur_data, cur_target, cur_l, ops, scored, saved_params,
                 par_hist, used_params, train_chunks, summed>>
  /\ UNCHANGED <<cellVars, lmVars, buildVars>>

\* lines 610-612: the final report
FinalPrint ==
  /\ tpc = "final_print"
  /\ IF math_exp(Get(val_L)).raised
       THEN /\ ppl' = Some([at |-> "final_val", loss |-> Get(val_L),
                            result |-> math_exp(Get(val_L))])
            /\ Raise("OverflowError", "final_val")
       ELSE /\ ppl' = Some([at |-> "final_test", loss |-> Get(test_L),
                            result |-> math_exp(Get(test_L))])
            /\ IF math_exp(Get(test_L)).raised
                 THEN Raise("OverflowError", "final_test")
                 ELSE tpc' = "done" /\ UNCHANGED exception
  /\ UNCHANGED <<epoch, train_i, batch_i, total_L, hiddens, ev, handed,
                 backprop, chunk, val_L, test_L, best_val, update_lr_epoch,
                 lr, saved, val_hist>>
  /\ UNCHANGED <<cellVars, lmVars, buildVars, passVars>>

Next ==
  \/ TrainEnter
  \/ EpochHead
  \/ TrainBatch
  \/ Validate
  \/ EvalBatch
  \/ EvalReturn
  \/ PrintVal
  \/ Improved
  \/ SaveParams
  \/ NotImproved
  \/ TrainReturn
  \/ FinalPrint

Spec == Init /\ [][Next]_vars

----------------------------------------------------------------------------
(* Properties of the training run *)

\* epoch k of the validation history h improved on the best loss seen
\* before it (+inf before the first epoch)
Improves(h, k) ==
  /\ Lt(h[k], Inf)
  /\ \A j \in 1..(k - 1) : h[j].c = "nan" \/ Lt(h[k], h[j])

\* the number of consecutive epochs at the end of h that did not improve,
\* counted from the last improvement or the last decay
RECURSIVE Stale(_, _)
Stale(h, k) ==
  IF k = 0 THEN 0
  ELSE IF Improves(h, k) THEN 0
  ELSE IF Stale(h, k - 1) = args.lr_update_interval THEN 1
  ELSE Stale(h, k - 1) + 1

DecayDue == Stale(val_hist, Len(val_hist)) = args.lr_update_interval

\* C1: when the epoch just validated is the lr_update_interval-th in a row
\* without improvement, the decision sets the learning rate to
\* rate * lr_update_factor and the counter to 0; no other step changes the
\* learning rate.
C1_DecayAfterInterval ==
  [][ /\ (tpc = "decide" /\ DecayDue)
           => /\ lr' = Times(lr, args.lr_update_factor)
              /\ update_lr_epoch' = Some(0)
      /\ lr' # lr => (tpc = "decide" /\ DecayDue) ]_vars

\* C2: the decision after a validation pass persists the parameters iff
\* the loss is strictly below best_val; best_val is then the least loss
\* validated so far and never goes up; an epoch without improvement adds
\* one to the counter (which restarts at 0 when it reaches the interval).
C2_CheckpointPolicy ==
  [][ /\ tpc = "decide"
           => /\ tpc' # "raised"
              /\ ~Lt(Get(best_val), Get(best_val'))
              /\ \A k \in 1..Len(val_hist) : ~Lt(val_hist[k], Get(best_val'))
              /\ IF Lt(Get(val_L), Get(best_val))
                   THEN best_val' = val_L /\ tpc' = "test"
                   ELSE /\ best_val' = best_val
                        /\ saved' = saved
                        /\ ~IsNone(update_lr_epoch)
                        /\ update_lr_epoch' =
                             Some((Get(update_lr_epoch) + 1)
                                    % args.lr_update_interval)
      /\ tpc = "save" => saved' = best_val
      /\ saved' # saved => tpc = "save" ]_vars

\* C7: every hidden state a model call is given consists of arrays that no
\* recorded computation produced (fresh zeros or detached), so the
\* backward pass of a chunk goes through that chunk's computation only.
C7_HandedStatesDetached ==
  /\ ~IsNone(handed) => \A a \in Arrays(Get(handed)) : a.graph = {}
  /\ backprop \subseteq {chunk}

C7_Witness ==
  /\ tpc = "batches"
  /\ batch_i >= 2
  /\ backprop = {chunk}
  /\ Graph(hiddens) = {chunk}

\* C10: every perplexity the run computes is the value get_ppl gives for
\* the loss (+inf where the exponential overflows), and the computation
\* does not raise.
C10_PerplexityOverflowIsInf ==
  ~IsNone(ppl) => /\ ~Get(ppl).result.raised
                  /\ Get(ppl).result.value = get_ppl(Get(ppl).loss)


\* C11: with --alpha and --beta left at the parser's defaults, criterion
\* returns the cross entropy of the given direction with no term added;
\* whenever it returns, the alpha (beta) term is there only if alpha (beta)
\* is not zero.
C11_DefaultCriterionIsCrossEntropy ==
  ~IsNone(cur_l) =>
    LET l == Get(cur_l)
    IN  /\ (args.alpha = ParserDefaults(script).alpha
            /\ args.beta = ParserDefaults(script).beta)
             => (~l.raised /\ l.terms = <<>>)
        /\ ~l.raised
             => /\ ("alpha" \in Range(l.terms)) => args.alpha # 0
                /\ ("beta" \in Range(l.terms)) => args.beta # 0


\* how often an operation occurs in a pass, and whether every a precedes
\* every b
Count(o, op) == Cardinality({k \in DOMAIN o : o[k] = op})
Before(o, a, b) == \A i, j \in DOMAIN o : (o[i] = a /\ o[j] = b) => i < j
Has(o, op) == Count(o, op) >= 1

\* the operations done so far in a pass over n devices are in the order
\* split, per shard (forward, forward loss, backward loss), backward,
\* clip, step, each at most once, and none is done without those before it
InBatchOrder(o, n) ==
  LET split == <<"split_and_load", n>>
      back  == <<"backward", n>>
      clip  == <<"clip_global_norm", n>>
      step  == <<"step", n>>
      fw(j) == <<"forward", j>>
      lf(j) == <<"criterion_forward", j>>
      lb(j) == <<"criterion_backward", j>>
      all   == {split, <<"detach", n>>, back, clip, step}
                 \cup {fw(j) : j \in 1..n} \cup {lf(j) : j \in 1..n}
                 \cup {lb(j) : j \in 1..n}
  IN  /\ Range(o) \subseteq all
      /\ \A op \in all : Count(o, op) <= 1
      /\ \A j \in 1..n :
           /\ Before(o, split, fw(j)) /\ (Has(o, fw(j)) => Has(o, split))
           /\ Before(o, fw(j), lf(j)) /\ (Has(o, lf(j)) => Has(o, fw(j)))
           /\ Before(o, lf(j), lb(j)) /\ (Has(o, lb(j)) => Has(o, lf(j)))
           /\ Before(o, lb(j), back) /\ (Has(o, back) => Has(o, lb(j)))
      /\ Before(o, back, clip) /\ (Has(o, clip) => Has(o, back))
      /\ Before(o, clip, step) /\ (Has(o, step) => Has(o, clip))

InTrain == {"criterion", "log", "val", "test", "update_lr_epoch"}

\* C13: train() runs the configured number of epochs and then returns:
\* it is never left by an exception, it is left only when the epoch count
\* has been reached, and within an epoch the validation pass starts only
\* when no training batch is left and the decision follows the validation.
C13_TrainRunsConfiguredEpochs ==
  /\ ~(tpc = "raised" /\ Get(exception).at \in InTrain)
  /\ tpc \in {"final_val", "final_test", "final_print", "done"}
       => epoch = args.epochs
  /\ tpc \in {"validate", "print_val", "decide", "test", "save"}
       => /\ epoch < args.epochs
          /\ ~(train_i < Len(train_data) - 1 - 1)
          /\ Len(val_hist) = epoch + (IF tpc = "validate" THEN 0 ELSE 1)


\* C14: an epoch starts with one zero state per device; a training batch
\* hands device j the detached state device j returned for the batch
\* before it, and device j's new state is computed from that state and
\* device j's shard of the chunk; the training states are written by
\* nothing but the start of an epoch and a training batch.
C14_HiddenStateLifecycle ==
  [][/\ hiddens' # hiddens => tpc \in {"epoch_head", "batches"}
     /\ (tpc = "epoch_head" /\ tpc' = "batches") =>
          /\ Len(hiddens'.items) = context
          /\ \A a \in Arrays(hiddens') : a.graph = {} /\ a.tokens = {}
     /\ (tpc = "batches" /\ chunk' # chunk) =>
          /\ Len(Get(handed').items) = context
          /\ \A j \in 1..context :
               /\ Get(handed').items[j] = detach(hiddens.items[j])
               /\ tpc' = "batches" =>
                    /\ Tokens(hiddens'.items[j])
                         = Tokens(hiddens.items[j])
                             \cup {<<cur_data'[k], j>> : k \in DOMAIN cur_data'}
                             \cup {<<cur_target'[k], j>>
                                     : k \in DOMAIN cur_target'}
                    /\ \A a \in Tokens(hiddens'.items[j]) :
                         a[2] = j]_vars

\* the second device is handed, in the second epoch, the state it returned
\* for the first batch of that epoch
C14_Witness ==
  /\ epoch = 1
  /\ tpc = "batches"
  /\ context = 2
  /\ batch_i = 2
  /\ Tokens(Get(handed).items[2]) = {<<1, 2>>, <<2, 2>>}


----------------------------------------------------------------------------
(* The order of the steps of ElmoLSTM.forward *)

\* the step of the forward cell of layer j at time t when the steps are
\* run as stated: on the embedding (j = 1) or on the output of the forward
\* cell of the layer below at the same t, from the state left by the step
\* at t - 1 of the same cell (the begin state at the first t)
RECURSIVE StepForward(_, _, _, _, _)
StepForward(m, inputs, states, j, t) ==
  layer_call(m, m.encoder.forward_layer[j], m.w_forward[j], m.mask_forward,
             IF j = 1 THEN inputs[1][t]
                      ELSE StepForward(m, inputs, states, j - 1, t).out,
             IF t = 1 THEN states[1][j]
                      ELSE StepForward(m, inputs, states, j, t - 1).state)

\* the step of the backward cell of layer j at time t: from the state left
\* by the step at t + 1 (the begin state at the last t)
RECURSIVE StepBackward(_, _, _, _, _)
StepBackward(m, inputs, states, j, t) ==
  layer_call(m, m.encoder.backward_layer[j], m.w_backward[j], m.mask_backward,
             IF j = 1 THEN inputs[2][t]
                      ELSE StepBackward(m, inputs, states, j - 1, t).out,
             IF t = Len(inputs[2]) THEN states[2][j]
                      ELSE StepBackward(m, inputs, states, j, t + 1).state)

\* C15: what ElmoLSTM.forward returns is what the steps give when layers
\* run from the first to the last, the forward cell of a layer over
\* increasing t and the backward cell over decreasing t, each step from the
\* state the step before it left, the first layer reading the embedding at
\* t and every other layer the same-direction output of the layer below at
\* t; index t of the outputs of both directions is the step at input t.
C15_StepOrder ==
  ~IsNone(lm_out) =>
    LET enc == Get(lm_out).encoded
        n   == Len(lm_inputs[1])
    IN  \A j \in 1..lm.cfg.num_layers :
          /\ Len(enc.outputs_forward[j]) = n
          /\ Len(enc.outputs_backward[j]) = n
          /\ \A t \in 1..n :
               /\ enc.outputs_forward[j][t]
                    = StepForward(lm, LmEncoded, LmBegin, j, t).out
               /\ enc.outputs_backward[j][t]
                    = StepBackward(lm, LmEncoded, LmBegin, j, t).out
          /\ enc.states_forward[j]
               = StepForward(lm, LmEncoded, LmBegin, j, n).state
          /\ enc.states_backward[j]
               = StepBackward(lm, LmEncoded, LmBegin, j, 1).state

\* a call on two layers and several time steps from a carried state, where
\* the top-layer outputs differ from one time step to the next
C15_Witness ==
  /\ ~IsNone(lm_out)
  /\ lm.cfg.num_layers = 2
  /\ Len(lm_inputs[1]) = MaxSeq
  /\ ~IsNone(lm_state)
  /\ Get(lm_out).encoded.outputs_backward[2][1]
       # Get(lm_out).encoded.outputs_backward[2][2]
  /\ Get(lm_out).encoded.outputs_forward[2][1]
       # Get(lm_out).encoded.outputs_forward[2][2]


----------------------------------------------------------------------------
(* The test evaluation inside train() *)

\* the decision of one epoch from the validation loss v alone, on the
\* best loss, counter, learning rate and saved checkpoint p before it
DecideOne(p, v) ==
  IF Lt(v, p.best)
    THEN [best |-> v, counter |-> Some(0), lr |-> p.lr, saved |-> Some(v)]
  ELSE IF IsNone(p.counter) THEN p
  ELSE IF (Get(p.counter) + 1) % args.lr_update_interval = 0
    THEN [best |-> p.best, counter |-> Some(0),
          lr |-> Times(p.lr, args.lr_update_factor), saved |-> p.saved]
  ELSE [best |-> p.best, counter |-> Some(Get(p.counter) + 1),
        lr |-> p.lr, saved |-> p.saved]

\* the decisions of the first k epochs of the validation history h
RECURSIVE Decided(_, _)
Decided(h, k) ==
  IF k = 0 THEN [best |-> Inf, counter |-> None, lr |-> args.lr,
                 saved |-> None]
  ELSE DecideOne(Decided(h, k - 1), h[k])

\* the number of validation losses already decided on
DecidedEpochs ==
  IF \/ tpc \in {"print_val", "decide"}
     \/ tpc = "raised" /\ Get(exception).at \in {"val", "update_lr_epoch"}
    THEN Len(val_hist) - 1
    ELSE Len(val_hist)

\* C16: best_val, the no-improvement counter, the learning rate and the
\* saved checkpoint are at every moment what the validation losses alone
\* make them (the checkpoint of an improving epoch being written once its
\* test evaluation has returned), and a step that produces a test loss
\* changes none of them and not the parameters.
C16_TestLossInformational ==
  /\ [](tpc # "main" =>
          /\ best_val = Some(Decided(val_hist, DecidedEpochs).best)
          /\ update_lr_epoch = Decided(val_hist, DecidedEpochs).counter
          /\ lr = Decided(val_hist, DecidedEpochs).lr
          /\ saved = Decided(val_hist,
                             IF tpc \in {"test", "save"}
                               THEN DecidedEpochs - 1
                               ELSE DecidedEpochs).saved)
  /\ [][test_L' # test_L =>
          /\ best_val' = best_val
          /\ update_lr_epoch' = update_lr_epoch
          /\ lr' = lr
          /\ saved' = saved
          /\ params' = params]_vars

\* after a first epoch whose test loss is below its validation loss, a
\* second epoch with the same validation loss was counted as no improvement
C16_Witness ==
  /\ Len(val_hist) = 2
  /\ tpc = "epoch_head"
  /\ ~IsNone(test_L)
  /\ Lt(Get(test_L), Get(best_val))
  /\ val_hist[2] = val_hist[1]
  /\ update_lr_epoch = Some(1)


----------------------------------------------------------------------------
(* The chunks get_batch cuts *)

\* C17: every call of get_batch by train() or evaluate(), at start index
\* i of its loop, returns data and target of the same length
\* min(bptt, len(data_source) - 1 - i) >= 1, data being the tokens from i
\* on, target[k] the token after data[k], nothing read past the end; i is
\* a multiple of bptt, and a chunk that is not the first of its pass
\* starts where the chunk before it ended.
C17_ChunksAlignedAndContiguous ==
  [][chunk' # chunk =>
       LET src == IF IsNone(ev) THEN train_data ELSE val_data
           i   == IF IsNone(ev) THEN train_i ELSE Get(ev).i
           n   == Min(args.bptt, Len(src) - 1 - i)
       IN  /\ n >= 1
           /\ Len(cur_data') = n
           /\ Len(cur_target') = n
           /\ i + n + 1 <= Len(src)
           /\ \A k \in 1..n : /\ cur_data'[k] = src[i + k]
                              /\ cur_target'[k] = src[i + k + 1]
           /\ i % args.bptt = 0
           /\ i > 0 => /\ Len(cur_data) = args.bptt
                       /\ cur_data[Len(cur_data)] = src[i]]_vars

\* the last chunk of an evaluation pass, shorter than bptt
C17_Witness ==
  /\ ~IsNone(ev)
  /\ args.bptt = 2
  /\ cur_data = <<3>>
  /\ cur_target = <<4>>


----------------------------------------------------------------------------
(* The layers ElmoLSTM.__init__ builds *)

\* layer j (counted from 0) of one direction is built as stated for the
\* configuration c
LayerAsConfigured(layer, j, c) ==
  /\ Cardinality({k \in DOMAIN layer : layer[k].kind # "DropoutCell"}) = 1
  /\ layer[1].kind # "DropoutCell"
  /\ layer[1].residual <=> (c.skip_connection /\ j > 0)
  /\ IF c.dropout # 0 /\ j # c.num_layers - 1
       THEN Len(layer) = 2 /\ layer[2].kind = "DropoutCell"
       ELSE Len(layer) = 1
  /\ layer[1].kind = "LSTMPCellWithClip" <=> c.mode = "lstmp"
  /\ layer[1].input_size = IF j = 0 THEN c.embed_size
                           ELSE IF c.mode = "lstmp" THEN c.proj_size
                           ELSE c.hidden_size

\* C18: the encoder of a constructed model has, for each direction, one
\* layer per layer index, each holding one cell; the cell is wrapped in a
\* residual connection iff skip_connection is set and the index is above
\* 0, and followed by a dropout stage iff the dropout rate is not 0 and the
\* layer is not the last; the cell is the projected clipping cell iff the
\* mode is 'lstmp'; a layer above the first takes inputs of proj_size in
\* 'lstmp' mode and of hidden_size otherwise.
C18_LayerStack ==
  ~IsNone(model) =>
    LET enc == Get(model).encoder
        c   == Get(model).cfg
    IN  /\ DOMAIN enc.forward_layer = 1..c.num_layers
        /\ DOMAIN enc.backward_layer = 1..c.num_layers
        /\ \A j \in 1..c.num_layers :
             /\ LayerAsConfigured(enc.forward_layer[j], j - 1, c)
             /\ LayerAsConfigured(enc.backward_layer[j], j - 1, c)

\* a constructed two-layer 'lstmp' model with skip connections, dropout
\* and a projection size other than the hidden size
C18_Witness ==
  /\ bpc = "constructed"
  /\ args.model = "lstmp"
  /\ args.nlayers = 2
  /\ args.skip_connection
  /\ args.dropout # 0
  /\ args.projsize # args.nhid
  /\ Get(model).encoder.backward_layer[2][1].residual
  /\ Len(Get(model).encoder.forward_layer[1]) = 2


----------------------------------------------------------------------------
(* What a scored logit is computed from *)

\* C19: in every model call of train() and evaluate(), carried states
\* included, a logit is not computed from the token it is scored against:
\* the forward logit at position t is scored against the token at t + 1
\* and computed from tokens at positions <= t only, the backward logit at
\* t is scored against the token at t and computed from tokens at
\* positions > t only.
C19_LogitNeverSeesItsTarget ==
  \A x \in scored :
    /\ x.scored_by \notin x.from
    /\ x.dir = "forward" =>
         /\ x.scored_by[1] = x.at[1] + 1
         /\ \A f \in x.from : f[1] <= x.at[1]
    /\ x.dir = "backward" =>
         /\ x.scored_by[1] = x.at[1]
         /\ \A f \in x.from : f[1] > x.at[1]


----------------------------------------------------------------------------
(* The no-improvement counter *)

\* C20: update_lr_epoch is assigned before it is read: whenever the
\* decision takes the branch of no improvement the counter has a value,
\* whatever the validation loss (+inf and nan included), and no read of it
\* raises.
C20_CounterAssignedBeforeRead ==
  /\ (tpc = "decide" /\ ~Lt(Get(val_L), Get(best_val)))
       => ~IsNone(update_lr_epoch)
  /\ ~(tpc = "raised" /\ Get(exception).at = "update_lr_epoch")


----------------------------------------------------------------------------
(* The parameters the final report is computed with *)

\* the last epoch of the validation history h that improved on the best
\* loss before it (0 if none did): the epoch of the lowest loss
RECURSIVE BestEpoch(_, _)
BestEpoch(h, k) ==
  IF k = 0 THEN 0
  ELSE IF Improves(h, k) THEN k
  ELSE BestEpoch(h, k - 1)

\* train() has returned
AfterTrain ==
  \/ tpc \in {"final_val", "final_test", "final_print", "done"}
  \/ tpc = "raised" /\ Get(exception).at \in {"final_val", "final_test"}

\* C21: once train() has returned after at least one epoch, a checkpoint
\* is there; the parameters in memory are those the validation pass of
\* the epoch of the lowest validation loss ran on, which are those of the
\* last checkpoint written, and the final validation and test passes run on
\* them.
C21_FinalReportUsesBestCheckpoint ==
  /\ (tpc = "epoch_head" /\ epoch = args.epochs /\ args.epochs >= 1)
       => ~IsNone(saved_params)
  /\ AfterTrain =>
       LET k == BestEpoch(val_hist, Len(val_hist))
       IN  /\ k >= 1
           /\ \A j \in 1..Len(val_hist) : ~Lt(val_hist[j], val_hist[k])
           /\ saved_params = Some(par_hist[k])
           /\ params = par_hist[k]
           /\ tpc # "final_val" => used_params = par_hist[k]

\* the report is out after a run whose second epoch did not improve: the
\* parameters it was computed with are those of the first epoch
C21_Witness ==
  /\ tpc = "done"
  /\ Len(val_hist) = 2
  /\ BestEpoch(val_hist, 2) = 1
  /\ par_hist[2] # par_hist[1]
  /\ used_params = par_hist[1]


----------------------------------------------------------------------------
(* The positions a pass goes through *)

\* the chunks of a pass, one after the other
RECURSIVE Flat(_)
Flat(chunks) ==
  IF chunks = <<>> THEN <<>>
  ELSE Flat(SubSeq(chunks, 1, Len(chunks) - 1)) \o chunks[Len(chunks)]

\* the positions of a data source that have a next token, in order
Predictable(data_source) == SubSeq(data_source, 1, Len(data_source) - 1)

\* C22: when the batch loop of train() has ended, its chunks are, one
\* after the other, every position of train_data that has a next token,
\* each once; so are those of evaluate() when its loop has ended; for data
\* of the same length the two loops go through the same chunks.
C22_PassesCoverEveryPosition ==
  /\ (tpc = "batches" /\ ~(train_i < Len(train_data) - 1 - 1))
       => Flat(train_chunks) = Predictable(train_data)
  /\ (~IsNone(ev) /\ ~(Get(ev).i < Len(val_data) - 1))
       => /\ Flat(Get(ev).chunks) = Predictable(val_data)
          /\ (tpc = "validate" /\ Len(train_data) = Len(val_data))
               => Get(ev).chunks = train_chunks


----------------------------------------------------------------------------
(* The shared weight and the vectors it is applied to *)

\* C23: in a model constructed with tie_weights the weight the output
\* layer shares with the embedding table, (vocab_size, embed_size), takes
\* vectors of the size the top layer of the encoder emits in either
\* direction, and the first call does not fail on it.
C23_TiedWeightFitsEncoderOutput ==
  (~IsNone(model) /\ Get(model).cfg.tie_weights) =>
    LET mdl == Get(model)
        n   == mdl.cfg.num_layers
        w   == mdl.decoder.params.weight
    IN  /\ w = <<mdl.cfg.vocab_size, mdl.cfg.embed_size>>
        /\ encoder_shape(mdl.encoder.forward_layer, n,
                         Some(mdl.cfg.embed_size)) = Some(w[2])
        /\ encoder_shape(mdl.encoder.backward_layer, n,
                         Some(mdl.cfg.embed_size)) = Some(w[2])
        /\ ~IsNone(first_out) => ~Get(first_out).raised


----------------------------------------------------------------------------
(* The progress lines of train() *)

\* C24: total_L holds no batch at the start of an epoch and after a
\* progress line; a pass of the batch loop prints a line exactly when
\* batch_i is a positive multiple of log_interval; the loss of a line is
\* total_L over log_interval, and log_interval is the number of batch
\* losses total_L holds.
C24_ProgressLineAveragesItsBatches ==
  /\ (tpc = "batches" /\ batch_i = 0) => (summed = 0 /\ total_L = 0)
  /\ summed = 0 => total_L = 0
  /\ (~IsNone(ppl) /\ Get(ppl).at = "log") =>
       /\ Get(ppl).batch_i > 0
       /\ Get(ppl).batch_i % args.log_interval = 0
       /\ Get(ppl).batches = args.log_interval

====
